---- MODULE Spec2Model ----
(***************************************************************************)
(* Model of presentation/create_docx.py: the script that turns the files   *)
(* slide1.md .. slide10.md into one word-processing document.              *)
(*                                                                         *)
(* Text is modelled as a sequence of one-character strings, so that the    *)
(* string methods the script relies on (strip, split, replace,             *)
(* startswith, join) are computed character by character as Python         *)
(* computes them.  The document is the sequence of block elements the      *)
(* script appends to it.                                                   *)
(***************************************************************************)
EXTENDS Integers, Sequences, FiniteSets, TLC

VARIABLES files, pc, i, lines, k, current_bullet, code_block, code_content,
          doc, saved, stdout

vars == <<files, pc, i, lines, k, current_bullet, code_block, code_content,
          doc, saved, stdout>>

(***************************************************************************)
(* Bounds of the model and constants of the program                        *)
(***************************************************************************)
MaxBody == 4

MaxPresent == 3

FirstSlide == 1

NumSlides == 10

BodyStart == 3

HalfInch == 5

CodePt == 9

(***************************************************************************)
(* Python string methods on character sequences                            *)
(***************************************************************************)
\* The characters for which str.isspace() holds, which str.strip() removes.
\* Those that a TLA+ string cannot hold as an escape are spelled out by name:
\* VT is U+000B, FS..US are U+001C..U+001F, NEL is U+0085, NBSP is U+00A0, and
\* the Unicode spaces are written by code point.
Whitespace ==
    {" ", "\t", "\n", "\r", "\f", "VT", "FS", "GS", "RS", "US", "NEL", "NBSP",
     "U+1680", "U+2000", "U+2001", "U+2002", "U+2003", "U+2004", "U+2005",
     "U+2006", "U+2007", "U+2008", "U+2009", "U+200A", "U+2028", "U+2029",
     "U+202F", "U+205F", "U+3000"}

\* open(path, 'r') reads in text mode: "\r\n" and a lone "\r" come out as "\n"
RECURSIVE UniversalNewlines(_)
UniversalNewlines(s) ==
    IF s = <<>> THEN s
    ELSE IF Head(s) = "\r"
        THEN IF Len(s) >= 2 /\ s[2] = "\n"
                THEN <<"\n">> \o UniversalNewlines(Tail(Tail(s)))
                ELSE <<"\n">> \o UniversalNewlines(Tail(s))
    ELSE <<Head(s)>> \o UniversalNewlines(Tail(s))

RECURSIVE LStrip(_)
LStrip(s) ==
    IF s = <<>> THEN s
    ELSE IF Head(s) \in Whitespace THEN LStrip(Tail(s)) ELSE s

RECURSIVE RStrip(_)
RStrip(s) ==
    IF s = <<>> THEN s
    ELSE IF s[Len(s)] \in Whitespace THEN RStrip(SubSeq(s, 1, Len(s) - 1)) ELSE s

Strip(s) == RStrip(LStrip(s))

StartsWith(s, p) == Len(s) >= Len(p) /\ SubSeq(s, 1, Len(p)) = p

Drop(s, n) == SubSeq(s, n + 1, Len(s))

\* position of the first occurrence of p in s, 0 when there is none
Find(s, p) ==
    LET hits == {n \in 1..(Len(s) - Len(p) + 1) : SubSeq(s, n, n + Len(p) - 1) = p}
    IN  IF hits = {} THEN 0 ELSE CHOOSE n \in hits : \A m \in hits : n <= m

\* s.replace(old, ''): every non-overlapping occurrence, left to right
RECURSIVE Remove(_, _)
Remove(s, old) ==
    IF Len(s) < Len(old) THEN s
    ELSE IF StartsWith(s, old) THEN Remove(Drop(s, Len(old)), old)
    ELSE <<Head(s)>> \o Remove(Tail(s), old)

\* s.split(sep)
RECURSIVE Split(_, _)
Split(s, sep) ==
    LET p == Find(s, sep)
    IN  IF p = 0 THEN <<s>>
        ELSE <<SubSeq(s, 1, p - 1)>> \o Split(Drop(s, p + Len(sep) - 1), sep)

\* sep.join(parts)
RECURSIVE Join(_, _)
Join(parts, sep) ==
    IF parts = <<>> THEN <<>>
    ELSE IF Len(parts) = 1 THEN parts[1]
    ELSE parts[1] \o sep \o Join(Tail(parts), sep)

NL == <<"\n">>

HashTok == <<"#", " ">>

BulletTok == <<"-", " ", "*", "*">>

BoldTok == <<"*", "*">>

SubTok == <<" ", " ", "-">>

SubPrefix == <<" ", " ", "-", " ">>

\* U+0060: the grave accent cannot be written inside a TLA+ string, so this
\* one character is spelled out
Tick == "GRAVE"

FenceTok == <<Tick, Tick, Tick>>

(***************************************************************************)
(* Document elements                                                       *)
(***************************************************************************)
Element(kind, text, style, bold, indent, font, size, align) ==
    [kind |-> kind, text |-> text, style |-> style, bold |-> bold,
     indent |-> indent, font |-> font, size |-> size, align |-> align]

TitleText == <<"L", "a", "r", "a", "v", "e", "l", " ", "P", "a", "c", "k", "a", "g", "e", "s", " ", "S", "c", "e", "n", "a", "r", "i", "o", "s">>

SubtitleText == <<"A", " ", "c", "o", "m", "p", "r", "e", "h", "e", "n", "s", "i", "v", "e", " ", "o", "v", "e", "r", "v", "i", "e", "w", " ", "o", "f", " ", "L", "a", "r", "a", "v", "e", "l", " ", "p", "a", "c", "k", "a", "g", "e", " ", "d", "e", "v", "e", "l", "o", "p", "m", "e", "n", "t">>

SuccessLine == <<"D", "o", "c", "u", "m", "e", "n", "t", " ", "c", "r", "e", "a", "t", "e", "d", " ", "s", "u", "c", "c", "e", "s", "s", "f", "u", "l", "l", "y", "!">>

\* what print sends to standard output: the line and its end='\n'
PrintedLine == SuccessLine \o <<"\n">>

TitleSlide ==
    << Element("heading0", TitleText, "Title", FALSE, 0, "", 0, "center"),
       Element("paragraph", SubtitleText, "Normal", FALSE, 0, "", 0, "center") >>

PageBreak == Element("page_break", <<>>, "Normal", FALSE, 0, "", 0, "")

Heading1(text) == Element("heading1", text, "Heading 1", FALSE, 0, "", 0, "center")

CodeParagraph(text) == Element("paragraph", text, "Normal", FALSE, 0, "Courier New", CodePt, "")

BoldBullet(text) == Element("paragraph", text, "List Bullet", TRUE, 0, "", 0, "")

SubBullet(text) == Element("paragraph", text, "List Bullet", FALSE, HalfInch, "", 0, "")

(***************************************************************************)
(* The pieces of the slide loop                                            *)
(***************************************************************************)
SlideExists(j) == j \in DOMAIN files

FileText(content) == UniversalNewlines(content)

ReadLinesRaw(content) == Split(FileText(content), NL)

ReadLines(content) == Split(Strip(FileText(content)), NL)

HeadingText(line) == Remove(line, HashTok)

SectionStartNoBreak(line) == << Heading1(HeadingText(line)) >>

SectionStart(line) == << PageBreak, Heading1(HeadingText(line)) >>

KeepParser ==
    [current_bullet |-> current_bullet, code_block |-> code_block,
     code_content |-> code_content]

ResetParser ==
    [current_bullet |-> 0, code_block |-> FALSE, code_content |-> <<>>]

IsFence(line) == Strip(line) = FenceTok \/ StartsWith(Strip(line), FenceTok)

IsBullet(line) == StartsWith(Strip(line), BulletTok)

IsSubBullet(line, bullet) == StartsWith(Strip(line), SubTok) /\ bullet # 0

ClassifyBulletFirst(line, in_code, bullet) ==
    IF IsFence(line) THEN "fence"
    ELSE IF IsBullet(line) THEN "bullet"
    ELSE IF in_code THEN "code"
    ELSE IF IsSubBullet(line, bullet) THEN "sub"
    ELSE "other"

\* the if / elif chain of the body loop: the first matching branch wins
Classify(line, in_code, bullet) ==
    IF IsFence(line) THEN "fence"
    ELSE IF in_code THEN "code"
    ELSE IF IsBullet(line) THEN "bullet"
    ELSE IF IsSubBullet(line, bullet) THEN "sub"
    ELSE "other"

BoldText(line) == Split(Remove(Strip(line), BulletTok), BoldTok)[1]

SubBulletText(line) == Remove(Strip(line), SubPrefix)

CodeTextNoSep(content) == Join(content, <<>>)

CodeText(content) == Join(content, NL)

SavedInsideLoop == pc = "loop" /\ i > FirstSlide

LoopFinished == pc = "loop" /\ i > NumSlides

(***************************************************************************)
(* Input files                                                             *)
(***************************************************************************)
LBlank == <<>>

LHead == <<"#", " ", "T">>

LHeadInner == <<"#", " ", "C", "#", " ", "B">>

LHeadTwo == <<"#", "#", " ", "T">>

LHeadPlain == <<"T">>

LHeadU == <<"#", " ", "U">>

LBullet == <<"-", " ", "*", "*", "A", "*", "*", " ", "x">>

LBulletInner == <<"-", " ", "*", "*", "a", "-", " ", "*", "*", "b">>

LBulletOpen == <<" ", "-", " ", "*", "*", "B">>

LSub == <<" ", " ", "-", " ", "d">>

LFence == <<Tick, Tick, Tick>>

LFenceTag == <<" ", Tick, Tick, Tick, "p">>

LText == <<"c">>

LBulletFeed == <<"\f", "-", " ", "*", "*", "A", "*", "*", "NBSP">>

BodyPalette == {LBlank, LBullet, LBulletInner, LSub, LFence, LText}

Bodies == UNION {[1..n -> BodyPalette] : n \in 0..MaxBody}

\* a slide with the expected two header lines and any body
BodyFiles == {Join(<<LHead, LBlank>> \o b, NL) : b \in Bodies}

HeadPrefixes == {<<>>, <<"\n">>, <<" ", " ">>, <<" ", "\n", "\n">>, <<"\f">>, <<"NBSP", "\r", "\n">>}

HeadLines == {LBlank, LHead, LHeadInner, LHeadTwo, LHeadPlain, LBullet, LFence}

SecondLines == {LBlank, LBullet, LFence, LText}

HeadBodies == {<<>>, <<LBullet, LSub>>, <<LText, LFenceTag, LBulletOpen>>, <<LBulletFeed, LText>>}

HeadSuffixes == {<<>>, <<"\n">>, <<"\r">>}

\* slides whose first two lines are anything at all
HeadFiles ==
    {p \o Join(<<h, s>> \o b, NL) \o t :
        p \in HeadPrefixes, h \in HeadLines, s \in SecondLines,
        b \in HeadBodies, t \in HeadSuffixes}

DeckA == Join(<<LHead, LBlank, LBullet, LSub, LFence, LText>>, NL)

DeckB == Join(<<LHeadU, LBlank, LSub, LBullet, LText>>, NL)

DeckC == Join(<<LHeadInner, LBlank, LFenceTag, LText, LSub, LFence, LBulletInner>>, NL)

Deck == {DeckA, DeckB}

DeckOf(j) == IF j % 3 = 1 THEN DeckA ELSE IF j % 3 = 2 THEN DeckB ELSE DeckC

Slides == FirstSlide..NumSlides

SmallSets == {P \in SUBSET Slides : Cardinality(P) <= MaxPresent}

FileSystems ==
    {[j \in {FirstSlide} |-> c] : c \in BodyFiles \cup HeadFiles}
    \cup {[j \in P |-> DeckOf(j)] : P \in SUBSET Slides}
    \cup UNION {[P -> Deck] : P \in SmallSets}

(***************************************************************************)
(* The script                                                              *)
(***************************************************************************)
Init ==
    /\ files \in FileSystems
    /\ pc = "loop"
    /\ i = FirstSlide
    /\ lines = <<>>
    /\ k = 0
    /\ current_bullet = 0
    /\ code_block = FALSE
    /\ code_content = <<>>
    /\ doc = TitleSlide
    /\ saved = <<>>
    /\ stdout = <<>>

\* os.path.exists is false: the index is skipped
SkipSlide ==
    /\ pc = "loop" /\ i <= NumSlides
    /\ ~SlideExists(i)
    /\ i' = i + 1
    /\ UNCHANGED <<files, pc, lines, k, current_bullet, code_block,
                   code_content, doc, saved, stdout>>

\* the file is read, split, and the section is opened
StartSlide ==
    /\ pc = "loop" /\ i <= NumSlides
    /\ SlideExists(i)
    /\ lines' = ReadLines(files[i])
    /\ doc' = doc \o SectionStart(lines'[1])
    /\ current_bullet' = ResetParser.current_bullet
    /\ code_block' = ResetParser.code_block
    /\ code_content' = ResetParser.code_content
    /\ k' = BodyStart
    /\ pc' = "body"
    /\ UNCHANGED <<files, i, saved, stdout>>

\* open() or read() raises: the exception is not caught
ReadFail ==
    /\ pc = "loop" /\ i <= NumSlides
    /\ SlideExists(i)
    /\ pc' = "failed"
    /\ UNCHANGED <<files, i, lines, k, current_bullet, code_block,
                   code_content, doc, saved, stdout>>

\* one iteration of "for line in lines[2:]"
ProcessLine ==
    /\ pc = "body" /\ k <= Len(lines)
    /\ LET line == lines[k]
           class == Classify(line, code_block, current_bullet)
       IN  /\ code_block' = IF class = "fence" THEN ~code_block ELSE code_block
           /\ code_content' =
                IF class = "fence" /\ code_block /\ code_content # <<>> THEN <<>>
                ELSE IF class = "code" THEN Append(code_content, line)
                ELSE code_content
           /\ doc' =
                IF class = "fence" /\ code_block /\ code_content # <<>>
                    THEN Append(doc, CodeParagraph(CodeText(code_content)))
                ELSE IF class = "bullet" THEN Append(doc, BoldBullet(BoldText(line)))
                ELSE IF class = "sub" THEN Append(doc, SubBullet(SubBulletText(line)))
                ELSE doc
           /\ current_bullet' = IF class = "bullet" THEN Len(doc') ELSE current_bullet
    /\ k' = k + 1
    /\ UNCHANGED <<files, pc, i, lines, saved, stdout>>

\* the body loop is exhausted: on to the next index
EndSlide ==
    /\ pc = "body" /\ k > Len(lines)
    /\ i' = i + 1
    /\ pc' = "loop"
    /\ UNCHANGED <<files, lines, k, current_bullet, code_block, code_content,
                   doc, saved, stdout>>

\* doc.save(...)
Save ==
    /\ LoopFinished
    /\ saved' = Append(saved, doc)
    /\ pc' = "print"
    /\ UNCHANGED <<files, i, lines, k, current_bullet, code_block,
                   code_content, doc, stdout>>

\* doc.save(...) raises: the exception is not caught
SaveFail ==
    /\ LoopFinished
    /\ pc' = "failed"
    /\ UNCHANGED <<files, i, lines, k, current_bullet, code_block,
                   code_content, doc, saved, stdout>>

\* print("Document created successfully!")
PrintSuccess ==
    /\ pc = "print"
    /\ stdout' = stdout \o PrintedLine
    /\ pc' = "done"
    /\ UNCHANGED <<files, i, lines, k, current_bullet, code_block,
                   code_content, doc, saved>>

\* print raises (standard output cannot be written, or only in part): some
\* proper prefix of the line, possibly empty, has been written; the exception
\* is not caught
PrintFail ==
    /\ pc = "print"
    /\ \E n \in 0..(Len(PrintedLine) - 1) :
          stdout' = stdout \o SubSeq(PrintedLine, 1, n)
    /\ pc' = "failed"
    /\ UNCHANGED <<files, i, lines, k, current_bullet, code_block,
                   code_content, doc, saved>>

\* standard output is closed (sys.stdout is None): print writes nothing and
\* the script ends normally
PrintNowhere ==
    /\ pc = "print"
    /\ pc' = "done"
    /\ UNCHANGED <<files, i, lines, k, current_bullet, code_block,
                   code_content, doc, saved, stdout>>

Next ==
    \/ SkipSlide
    \/ StartSlide
    \/ ReadFail
    \/ ProcessLine
    \/ EndSlide
    \/ Save
    \/ SaveFail
    \/ PrintSuccess
    \/ PrintFail
    \/ PrintNowhere

Spec == Init /\ [][Next]_vars

(***************************************************************************)
(* Vocabulary of the properties, stated on the lines and on the document   *)
(***************************************************************************)
Breaks(d) == {n \in 1..Len(d) : d[n].kind = "page_break"}

Headings(d) == {n \in 1..Len(d) : d[n].kind = "heading1"}

\* the slides whose section has been opened so far
Started == {j \in DOMAIN files : j < i \/ (j = i /\ pc = "body")}

\* position in the document of the m-th page break
NthBreak(d, m) == CHOOSE n \in Breaks(d) : Cardinality({x \in Breaks(d) : x <= n}) = m

Rank(j) == Cardinality({x \in Started : x <= j})

\* fence lines of the current slide's body up to line n
FencesUpTo(n) == {m \in BodyStart..n : m <= Len(lines) /\ IsFence(lines[m])}

Inside(n) == Cardinality(FencesUpTo(n)) % 2 = 1

LastFence(n) == CHOOSE m \in FencesUpTo(n) : \A x \in FencesUpTo(n) : x <= m

AtLine == pc = "body" /\ k <= Len(lines)

AtBodyStart == pc = "body" /\ k = BodyStart

AtSlideEnd == pc = "body" /\ k > Len(lines)

IsPrefix(a, b) == Len(a) <= Len(b) /\ SubSeq(b, 1, Len(a)) = a

(***************************************************************************)
(* C1: one section per existing slide, in ascending index order; a section *)
(* opens with a page break immediately followed by a centered level-1      *)
(* heading, and everything slide i emits precedes the page break of any    *)
(* later slide.                                                            *)
(***************************************************************************)
SectionsInv ==
    /\ Cardinality(Breaks(doc)) = Cardinality(Started)
    /\ Cardinality(Headings(doc)) = Cardinality(Started)
    /\ \A n \in Breaks(doc) :
          /\ n < Len(doc)
          /\ doc[n + 1].kind = "heading1"
          /\ doc[n + 1].align = "center"
    /\ pc \in {"loop", "body", "print"} =>
          \A j \in Started :
              doc[NthBreak(doc, Rank(j)) + 1].text
                  = Remove(Split(Strip(FileText(files[j])), NL)[1], HashTok)

\* the document only grows at its end, a slide's body adds neither a page
\* break nor a heading, and the step that ends a run leaves the document as
\* it is
SectionsStep ==
    /\ IsPrefix(doc, doc')
    /\ pc' \in {"done", "failed"} => doc' = doc
    /\ pc = "body" =>
          \A n \in (Len(doc) + 1)..Len(doc') :
              doc'[n].kind \notin {"page_break", "heading1"}

C1_Sections == []SectionsInv /\ [][SectionsStep]_vars

C1_Witness ==
    /\ pc = "done"
    /\ DOMAIN files = {1, 3, 5}
    /\ Cardinality(Breaks(saved[1])) = 3
    /\ Len(saved[1]) > 8

(***************************************************************************)
(* C2: a sub-bullet line, two spaces, a dash, a space and then a text T,   *)
(* outside a code block and after a top-level bullet of the same slide,    *)
(* appends exactly one bulleted paragraph indented by 0.5 whose plain run  *)
(* is T.                                                                   *)
(***************************************************************************)
IsSubBulletLine(line) ==
    /\ StartsWith(line, SubPrefix)
    /\ Len(line) > Len(SubPrefix)
    /\ ~IsBullet(line)
    /\ ~IsFence(line)

C2_SubBullet ==
    [][(AtLine /\ ~code_block /\ current_bullet # 0 /\ IsSubBulletLine(lines[k]))
          => doc' = Append(doc, SubBullet(Drop(lines[k], Len(SubPrefix))))]_vars

(***************************************************************************)
(* C3: a body line outside a code block whose trimmed text starts with     *)
(* "- **" appends exactly one bold bulleted paragraph whose text is what   *)
(* lies between that leading prefix and the next "**"; nothing after the   *)
(* closing "**" is emitted.                                                *)
(***************************************************************************)
LabelBetween(line) ==
    LET rest == Drop(Strip(line), Len(BulletTok))
        p == Find(rest, BoldTok)
    IN  IF p = 0 THEN rest ELSE SubSeq(rest, 1, p - 1)

C3_BoldLabel ==
    [][(AtLine /\ ~code_block /\ ~IsFence(lines[k])
            /\ StartsWith(Strip(lines[k]), BulletTok))
          => doc' = Append(doc, BoldBullet(LabelBetween(lines[k])))]_vars

(***************************************************************************)
(* C4: the heading of a section is the slide's heading line without its    *)
(* leading "# " token, when it has one, and the line unchanged otherwise;  *)
(* a later "# " inside the line is kept.                                   *)
(***************************************************************************)
WithoutLeadingHash(line) ==
    IF StartsWith(line, HashTok) THEN Drop(line, Len(HashTok)) ELSE line

C4_HeadingText ==
    AtBodyStart => doc[Len(doc)].text = WithoutLeadingHash(lines[1])

(***************************************************************************)
(* C5, as stated: line 1 of the file is the heading line whatever it       *)
(* holds, blank included, line 2 of the file is skipped, and the body      *)
(* starts at line 3 of the file.                                           *)
(***************************************************************************)
C5_FileLineOne ==
    AtBodyStart =>
        LET raw == Split(FileText(files[i]), NL)
        IN  /\ Strip(lines[1]) = Strip(raw[1])
            /\ (Len(lines) >= BodyStart /\ Len(raw) >= BodyStart)
                  => Strip(lines[BodyStart]) = Strip(raw[BodyStart])

(***************************************************************************)
(* C5, amended: the heading line is the first line of the file that holds  *)
(* a non-whitespace character (the empty line when the file has none),     *)
(* whatever it holds; the line after it is skipped whatever it holds, a    *)
(* bullet or a fence included; the body starts at the line after that and  *)
(* ends with the last line that holds a non-whitespace character.          *)
(***************************************************************************)
NonBlank(raw) == {n \in 1..Len(raw) : Strip(raw[n]) # <<>>}

FirstOf(S) == CHOOSE n \in S : \A m \in S : n <= m

LastOf(S) == CHOOSE n \in S : \A m \in S : m <= n

C5_StrippedLines ==
    pc = "body" =>
        LET raw == Split(FileText(files[i]), NL)
            nb == NonBlank(raw)
        IN  /\ k >= BodyStart
            /\ Headings(doc) # {}
            /\ LET h == LastOf(Headings(doc))
               IN  /\ doc[h].text = Remove(lines[1], HashTok)
                   /\ k = BodyStart =>
                         (h = Len(doc) /\ ~code_block /\ current_bullet = 0)
            /\ nb = {} => lines = << <<>> >>
            /\ nb # {} =>
                  LET f == FirstOf(nb)
                      l == LastOf(nb)
                  IN  /\ Len(lines) = l - f + 1
                      /\ lines[1] = (IF f = l THEN Strip(raw[f]) ELSE LStrip(raw[f]))
                      /\ \A m \in 2..(Len(lines) - 1) : lines[m] = raw[f + m - 1]
                      /\ f < l => lines[Len(lines)] = RStrip(raw[l])

C5_Witness ==
    /\ AtSlideEnd
    /\ Strip(Split(FileText(files[i]), NL)[1]) = <<>>
    /\ Len(lines) > BodyStart
    /\ IsFence(lines[2])
    /\ lines[1] = LHead
    /\ Len(doc) > Len(TitleSlide) + 2

(***************************************************************************)
(* C6: a closing fence that has at least one line between it and its       *)
(* opening fence appends exactly one Courier New 9pt paragraph whose text  *)
(* is the newline-join of the raw lines strictly between the two fences;   *)
(* an opening fence appends nothing, and a line between the fences, even   *)
(* one that looks like a bullet, appends nothing.                          *)
(***************************************************************************)
CodeBlockStep ==
    AtLine =>
        LET closing == IsFence(lines[k]) /\ Inside(k - 1)
            open == IF Inside(k - 1) THEN LastFence(k - 1) ELSE 0
        IN  /\ (closing /\ k - open > 1) =>
                  doc' = Append(doc,
                      [kind |-> "paragraph",
                       text |-> Join(SubSeq(lines, open + 1, k - 1), NL),
                       style |-> "Normal", bold |-> FALSE, indent |-> 0,
                       font |-> "Courier New", size |-> 9, align |-> ""])
            /\ (IsFence(lines[k]) /\ ~closing) => doc' = doc
            /\ (~IsFence(lines[k]) /\ Inside(k - 1)) => doc' = doc

C6_CodeBlock == [][CodeBlockStep]_vars

C6_Witness ==
    /\ pc = "body"
    /\ k - 1 >= BodyStart + 3
    /\ k - 1 <= Len(lines)
    /\ IsFence(lines[k - 1])
    /\ IsFence(lines[k - 4])
    /\ IsBullet(lines[k - 3])
    /\ lines[k - 2] = LSub
    /\ ~Inside(k - 1)
    /\ doc[Len(doc)].font = "Courier New"
    /\ doc[Len(doc)].text = lines[k - 3] \o NL \o lines[k - 2]

(***************************************************************************)
(* C7: when a slide opens a fence that it never closes, no line from that  *)
(* fence to the end of the slide appends anything, the end of the slide    *)
(* appends nothing either, and the run goes on.                            *)
(***************************************************************************)
Unclosed == Inside(Len(lines))

UnclosedStep ==
    /\ (AtLine /\ Unclosed /\ k >= LastFence(Len(lines)))
          => (doc' = doc /\ pc' = "body")
    /\ (AtSlideEnd /\ Unclosed) => (doc' = doc /\ pc' = "loop")

C7_UnclosedFence == [][UnclosedStep]_vars

C7_Witness ==
    /\ pc = "loop"
    /\ i > FirstSlide
    /\ Unclosed
    /\ LastFence(Len(lines)) > BodyStart
    /\ LastFence(Len(lines)) + 2 <= Len(lines)
    /\ \E m \in (LastFence(Len(lines)) + 1)..Len(lines) : IsBullet(lines[m])
    /\ code_content # <<>>
    /\ doc[Len(doc)].style = "List Bullet"

(***************************************************************************)
(* C8: every slide's body starts with no current bullet, outside a code    *)
(* block and with an empty accumulator; so a sub-bullet pattern with no    *)
(* earlier bullet in its own slide appends nothing, and a line that no     *)
(* fence of its own slide encloses is never accumulated as code.           *)
(***************************************************************************)
FreshBody == AtBodyStart => (current_bullet = 0 /\ ~code_block /\ code_content = <<>>)

FreshStep ==
    AtLine =>
        /\ (StartsWith(lines[k], SubTok)
              /\ \A m \in BodyStart..(k - 1) : ~IsBullet(lines[m])) => doc' = doc
        /\ (~Inside(k - 1) /\ ~IsFence(lines[k])) => code_content' = code_content

C8_NoCarryOver == []FreshBody /\ [][FreshStep]_vars

C8_Witness ==
    /\ AtSlideEnd
    /\ \E j \in DOMAIN files : j < i /\ files[j] = DeckA
    /\ files[i] = DeckB
    /\ ~code_block
    /\ doc[Len(doc)].style = "List Bullet"
    /\ doc[Len(doc) - 1].kind = "heading1"

(***************************************************************************)
(* C10: the document is saved at most once and only when all ten indices   *)
(* have been gone through, the success line is printed only after that     *)
(* save, a run that fails in reading a slide or in saving prints nothing,   *)
(* and a run that fails inside the loop saves nothing.                     *)
(***************************************************************************)
SaveInv ==
    /\ Len(saved) <= 1
    /\ saved # <<>> => (i > NumSlides /\ saved[1] = doc)
    /\ stdout # <<>> => Len(saved) = 1
    /\ IsPrefix(stdout, PrintedLine)
    /\ (pc = "failed" /\ saved = <<>>) => stdout = <<>>
    /\ (pc = "failed" /\ i <= NumSlides) => saved = <<>>

\* a failed run and a finished run take no further step
SaveStep == pc \notin {"failed", "done"}

C10_SaveOnce == []SaveInv /\ [][SaveStep]_vars

C10_Witness ==
    /\ pc = "failed"
    /\ i = NumSlides
    /\ Len(doc) > Len(TitleSlide) + 4
    /\ saved = <<>>

TypeOK ==
    /\ pc \in {"loop", "body", "print", "done", "failed"}
    /\ i \in FirstSlide..(NumSlides + 1)
    /\ code_block \in BOOLEAN
    /\ current_bullet \in 0..Len(doc)
    /\ Len(saved) <= 1
====
